---- MODULE Spec2Model ----
(***************************************************************************)
(* Check Please! (src/main.ts): checkbox tokens in Markdown table cells    *)
(* become clickable controls, in the live editor (CheckPleaseViewPlugin,   *)
(* CheckboxWidget) and in the rendered view (markdown post-processor and   *)
(* its 'obsidian-checkbox-change' handler).                                *)
(*                                                                         *)
(* Text is a sequence of one-character strings; offsets are 0-based as in  *)
(* the source, sequence indices 1-based.                                   *)
(***************************************************************************)
EXTENDS Integers, Sequences, FiniteSets, TLC

\* Body(v), with v evaluated once and handed over as a value
Let(v, Body(_)) == CHOOSE r \in {Body(x) : x \in {v}} : TRUE

\* ------------------------------------------------------------------------
\* Characters and JavaScript string primitives used by src/main.ts
\* ------------------------------------------------------------------------

NL == "\n"

\* \s of a JavaScript regular expression, and the characters trim() removes
IsSpace(c) == c = " " \/ c = NL \/ c = "\t" \/ c = "\r"

WhiteSpace == {" ", NL, "\t", "\r"}

DigitChars == <<"0", "1", "2", "3", "4", "5", "6", "7", "8", "9">>

DigitSet == {DigitChars[i] : i \in 1..10}

DigitOf == [c \in DigitSet |-> (CHOOSE i \in 1..10 : DigitChars[i] = c) - 1]

\* \d
IsDigit(c) == c \in DigitSet

UpperChars == <<"A", "B", "C", "D", "E", "F", "G", "H", "I", "J", "K", "L", "M",
                "N", "O", "P", "Q", "R", "S", "T", "U", "V", "W", "X", "Y", "Z">>

LowerChars == <<"a", "b", "c", "d", "e", "f", "g", "h", "i", "j", "k", "l", "m",
                "n", "o", "p", "q", "r", "s", "t", "u", "v", "w", "x", "y", "z">>

UpperSet == {UpperChars[i] : i \in 1..26}

LowerOf == [c \in UpperSet |-> LowerChars[CHOOSE i \in 1..26 : UpperChars[i] = c]]

LowerChar(c) == IF c \in UpperSet THEN LowerOf[c] ELSE c

\* String.prototype.toLowerCase
ToLowerCase(str) == Let(str, LAMBDA s : [i \in 1..Len(s) |-> LowerChar(s[i])])

\* s.substring(from, to), 0-based, to exclusive
Substring(s, from, to) == SubSeq(s, from + 1, to)

\* String.prototype.includes
Includes(str, substr) ==
    Let(<<str, substr>>, LAMBDA a :
        \E i \in 0..(Len(a[1]) - Len(a[2])) : Substring(a[1], i, i + Len(a[2])) = a[2])

\* the members of a finite set of offsets, ascending: the order in which a
\* left-to-right scan meets them
Ascending(offsets) ==
    Let(offsets, LAMBDA os :
        Let([p \in os |-> Cardinality({q \in os : q < p})], LAMBDA below :
            [k \in 1..Cardinality(os) |-> CHOOSE p \in os : below[p] = k - 1]))

\* Array.prototype.filter, the kept indices given as a set: the kept elements in
\* their order
Filter(xs, keep) ==
    Let(<<xs, Ascending(keep)>>, LAMBDA a : [k \in 1..Len(a[2]) |-> a[1][a[2][k]]])

\* String.prototype.indexOf: the first offset at which sub occurs in s, -1 if none
IndexOf(str, substr) ==
    Let(<<str, substr>>, LAMBDA a :
        IF Includes(a[1], a[2])
        THEN CHOOSE i \in 0..(Len(a[1]) - Len(a[2])) :
                /\ Substring(a[1], i, i + Len(a[2])) = a[2]
                /\ \A j \in 0..(i - 1) : Substring(a[1], j, j + Len(a[2])) # a[2]
        ELSE -1)

\* String.prototype.replace(string, string): the first occurrence only
ReplaceFirst(str, sub, rep) ==
    Let(<<str, IndexOf(str, sub)>>, LAMBDA a :
        IF a[2] < 0 THEN a[1]
        ELSE Substring(a[1], 0, a[2]) \o rep
             \o Substring(a[1], a[2] + Len(sub), Len(a[1])))

\* String.prototype.split(d) for a one-character separator: the texts between
\* successive separators, empty ones kept
Split(str, d) ==
    Let(str, LAMBDA s :
        Let(Ascending({i \in 0..(Len(s) - 1) : s[i + 1] = d}), LAMBDA seps :
            [k \in 1..(Len(seps) + 1) |->
                Substring(s, IF k = 1 THEN 0 ELSE seps[k - 1] + 1,
                             IF k = Len(seps) + 1 THEN Len(s) ELSE seps[k])]))

\* the maximal runs of characters of s outside seps, left to right
Runs(str, seps) ==
    Let(str, LAMBDA s :
        Let(<<Ascending({i \in 0..(Len(s) - 1) :
                  s[i + 1] \notin seps /\ (i = 0 \/ s[i] \in seps)}),
              Ascending({i \in 1..Len(s) :
                  s[i] \notin seps /\ (i = Len(s) \/ s[i + 1] \in seps)})>>,
            LAMBDA b : [k \in 1..Len(b[1]) |-> Substring(s, b[1][k], b[2][k])]))

\* String.prototype.split(/[...]+/): a run of separator characters separates
\* once; a separator at either end leaves an empty first or last part
SplitRuns(str, seps) ==
    Let(str, LAMBDA s :
        IF Len(s) = 0 THEN << <<>> >>
        ELSE (IF s[1] \in seps THEN << <<>> >> ELSE <<>>)
             \o Runs(s, seps)
             \o (IF s[Len(s)] \in seps THEN << <<>> >> ELSE <<>>))

RECURSIVE JoinFrom(_, _, _)
JoinFrom(parts, sep, i) ==
    IF i > Len(parts) THEN <<>>
    ELSE IF i = Len(parts) THEN parts[i]
    ELSE parts[i] \o sep \o JoinFrom(parts, sep, i + 1)

\* Array.prototype.join
Join(parts, sep) == Let(parts, LAMBDA ps : JoinFrom(ps, sep, 1))

\* String.prototype.trim
Trim(str) ==
    Let(str, LAMBDA s :
        IF \A i \in 1..Len(s) : IsSpace(s[i]) THEN <<>>
        ELSE SubSeq(s,
                CHOOSE i \in 1..Len(s) :
                    ~IsSpace(s[i]) /\ \A j \in 1..(i - 1) : IsSpace(s[j]),
                Len(s) - (CHOOSE k \in 0..(Len(s) - 1) :
                    ~IsSpace(s[Len(s) - k])
                    /\ \A j \in (Len(s) - k + 1)..Len(s) : IsSpace(s[j]))))

\* s.replace(/\n/g, ' ').replace(/\s+/g, ' ').trim(): the runs of non-whitespace
\* characters of s, one space between two of them
CleanText(s) == Join(Runs(s, WhiteSpace), <<" ">>)

RECURSIVE ToDecimal(_)
\* the decimal text of a non-negative integer, as a template literal prints it
ToDecimal(n) ==
    IF n < 10 THEN <<DigitChars[n + 1]>>
    ELSE ToDecimal(n \div 10) \o <<DigitChars[(n % 10) + 1]>>

RECURSIVE DigitsValue(_, _, _)
DigitsValue(s, i, acc) ==
    IF i > Len(s) \/ ~IsDigit(s[i]) THEN acc
    ELSE DigitsValue(s, i + 1, acc * 10 + DigitOf[s[i]])

\* parseInt(s): leading whitespace skipped, then an optional sign and the longest
\* run of digits; NaN (ok = FALSE) when no digit follows
ParseInt(str) ==
    Let(str, LAMBDA s :
        LET b   == IF \A i \in 1..Len(s) : IsSpace(s[i]) THEN Len(s) + 1
                   ELSE CHOOSE i \in 1..Len(s) :
                            ~IsSpace(s[i]) /\ \A j \in 1..(i - 1) : IsSpace(s[j])
            neg == b <= Len(s) /\ s[b] = "-"
            d   == IF b <= Len(s) /\ s[b] \in {"-", "+"} THEN b + 1 ELSE b
        IN  IF d <= Len(s) /\ IsDigit(s[d])
            THEN [ok |-> TRUE,
                  val |-> IF neg THEN 0 - DigitsValue(s, d, 0)
                          ELSE DigitsValue(s, d, 0)]
            ELSE [ok |-> FALSE, val |-> 0])

Abs(n) == IF n < 0 THEN 0 - n ELSE n

\* ------------------------------------------------------------------------
\* Checkbox tokens
\* ------------------------------------------------------------------------

TokChecked == <<"[", "x", "]">>
TokCheckedUpper == <<"[", "X", "]">>
TokUnchecked == <<"[", " ", "]">>

\* /\[[ xX]\]/ matches at 0-based offset i of s
TokenAt(s, i) ==
    /\ i >= 0
    /\ i + 3 <= Len(s)
    /\ s[i + 1] = "["
    /\ s[i + 3] = "]"
    /\ s[i + 2] \in {" ", "x", "X"}

\* the offsets of the successive matches of the global regex /\[[ xX]\]/g in s,
\* left to right. Two matches never overlap (a match begins with `[` and holds
\* none after it), so the scan, which resumes after each match, meets them all.
MatchAll(str) ==
    Let(str, LAMBDA s : Ascending({i \in 0..(Len(s) - 3) : TokenAt(s, i)}))

\* isChecked = match[0] === '[x]' || match[0] === '[X]'
IsCheckedToken(t) == t = TokChecked \/ t = TokCheckedUpper


\* ------------------------------------------------------------------------
\* Rendered view: the post-processor's fingerprints (render time)
\* ------------------------------------------------------------------------

\* The table rows the rendered view shows are the source lines that hold a `|`
\* and are not a delimiter row (|---|---|); the post-processor sees them as the
\* tr elements of the element it is given.
IsDelimiterRow(line) ==
    /\ \E i \in 1..Len(line) : line[i] = "-"
    /\ \A i \in 1..Len(line) : line[i] \in {"|", "-", ":", " "}

IsRowLine(line) ==
    /\ \E i \in 1..Len(line) : line[i] = "|"
    /\ ~IsDelimiterRow(line)

\* the number of whitespace characters s begins with
LeadingSpaces(s) ==
    IF \A i \in 1..Len(s) : IsSpace(s[i]) THEN Len(s)
    ELSE (CHOOSE i \in 1..Len(s) : ~IsSpace(s[i]) /\ \A j \in 1..(i - 1) : IsSpace(s[j])) - 1

\* the offset at which the k-th part of s.split(d) begins
PartStart(seps, k) == IF k = 1 THEN 0 ELSE seps[k - 1] + 1

\* row.children: the td/th elements of one rendered row, in order. Each holds the
\* trimmed text between two pipes; a leading and a trailing pipe delimit no cell
\* and an empty cell between two pipes is an (empty) element of its own.
\* text is the element's textContent, at the offset of that text in the line.
RowChildren(line) ==
    Let(<<Split(line, "|"), Ascending({i \in 0..(Len(line) - 1) : line[i + 1] = "|"})>>,
        LAMBDA a :
            LET segs == a[1]
                n    == Len(segs)
                lo   == IF Trim(segs[1]) = <<>> THEN 2 ELSE 1
                hi   == IF Trim(segs[n]) = <<>> THEN n - 1 ELSE n
            IN  [k \in 1..(hi - lo + 1) |->
                    [text |-> Trim(segs[lo + k - 1]),
                     at   |-> PartStart(a[2], lo + k - 1)
                              + LeadingSpaces(segs[lo + k - 1])]])

\* the text left in a cell once every token of it is replaced by an input element
WithoutTokens(str) ==
    Let(str, LAMBDA s :
        Filter(s, {i \in 1..Len(s) :
                     ~\E m \in (i - 3)..(i - 1) : TokenAt(s, m)}))

\* row.textContent when the cell at 0-based position p is processed: the cells
\* before it were rewritten already (cell.innerHTML = newHTML) and hold inputs in
\* place of their tokens; the elements of a row are separated by line breaks
\* (the handler's cleanRowText replaces them).
RowTextAt(cells, p) ==
    <<NL>> \o
    Join([k \in 1..Len(cells) |->
            IF k - 1 < p THEN WithoutTokens(cells[k].text) ELSE cells[k].text], <<NL>>)
    \o <<NL>>

\* contextKey = `ROW:${rowText}|CELL:${cellPosition}|OFFSET:${offset}|CHECKBOX:${checkboxMatch}`
ContextKey(rowText, cellPosition, offset, checkboxMatch) ==
    <<"R", "O", "W", ":">> \o rowText
    \o <<"|">> \o <<"C", "E", "L", "L", ":">> \o ToDecimal(cellPosition)
    \o <<"|">> \o <<"O", "F", "F", "S", "E", "T", ":">> \o ToDecimal(offset)
    \o <<"|">> \o <<"C", "H", "E", "C", "K", "B", "O", "X", ":">> \o checkboxMatch

RECURSIVE Flatten(_, _)
Flatten(seqs, i) == IF i > Len(seqs) THEN <<>> ELSE seqs[i] \o Flatten(seqs, i + 1)

\* The inputs one cell is rewritten to, one per token of its text, left to right.
\* context and original are the data-context and data-original attributes and
\* checked is the input's state. The other fields record where the control was
\* rendered from: src, the offset of the source token in the whole text; line,
\* the 0-based line; td, the cell's position among row.children; cell, its
\* position among the non-empty cells of the row; nth, the token's rank in the cell.
CellControls(cells, p, lineIndex, lineStart) ==
    Let(<<cells[p + 1].text, MatchAll(cells[p + 1].text), RowTextAt(cells, p),
          Cardinality({c \in 1..p : cells[c].text # <<>>})>>,
        LAMBDA a :
            [k \in 1..Len(a[2]) |->
                [context  |-> ContextKey(a[3], p, a[2][k],
                                         Substring(a[1], a[2][k], a[2][k] + 3)),
                 original |-> Substring(a[1], a[2][k], a[2][k] + 3),
                 checked  |-> IsCheckedToken(Substring(a[1], a[2][k], a[2][k] + 3)),
                 src      |-> lineStart + cells[p + 1].at + a[2][k],
                 line     |-> lineIndex,
                 td       |-> p,
                 cell     |-> a[4],
                 nth      |-> k]])

\* the controls of one rendered row
RowControls(line, lineIndex, lineStart) ==
    Let(RowChildren(line), LAMBDA cells :
        Flatten([c \in 1..Len(cells) |->
                    CellControls(cells, c - 1, lineIndex, lineStart)], 1))

\* registerMarkdownPostProcessor over the rendering of `content`: every control
\* of every cell of every row, in document order
RenderControls(content) ==
    Let(<<Split(content, NL),
          Ascending({i \in 0..(Len(content) - 1) : content[i + 1] = NL})>>,
        LAMBDA a :
            Flatten([k \in 1..Len(a[1]) |->
                        IF IsRowLine(a[1][k])
                        THEN RowControls(a[1][k], k - 1, PartStart(a[2], k))
                        ELSE <<>>], 1))

\* the characters of the modelled texts that encodeURIComponent escapes, each
\* with its escape sequence; letters, digits and - _ . ! ~ * ' ( ) are kept
PercentEscape ==
    [c \in {" ", NL, "|", ":", "[", "]", "%"} |->
        CASE c = " " -> <<"%", "2", "0">>
          [] c = NL  -> <<"%", "0", "A">>
          [] c = "|" -> <<"%", "7", "C">>
          [] c = ":" -> <<"%", "3", "A">>
          [] c = "[" -> <<"%", "5", "B">>
          [] c = "]" -> <<"%", "5", "D">>
          [] c = "%" -> <<"%", "2", "5">>]

\* encodeURIComponent
EncodeURIComponent(str) ==
    Let(str, LAMBDA t :
        Flatten([i \in 1..Len(t) |->
                    IF t[i] \in DOMAIN PercentEscape THEN PercentEscape[t[i]]
                    ELSE <<t[i]>>], 1))

\* decodeURIComponent of a well-formed text: every % begins an escape sequence
\* of three characters
DecodeURIComponent(str) ==
    Let(str, LAMBDA t :
        Let(Ascending({i \in 1..Len(t) :
                        ~\E e \in {i - 2, i - 1} : e >= 1 /\ t[e] = "%"}),
            LAMBDA at :
                [k \in 1..Len(at) |->
                    IF t[at[k]] = "%"
                    THEN CHOOSE c \in DOMAIN PercentEscape :
                            PercentEscape[c] = SubSeq(t, at[k], at[k] + 2)
                    ELSE t[at[k]]]))

\* the value of the data-context attribute of an input element
DataContext(rowText, cellPosition, offset, checkboxMatch) ==
    EncodeURIComponent(ContextKey(rowText, cellPosition, offset, checkboxMatch))

\* ------------------------------------------------------------------------
\* Rendered view: the 'obsidian-checkbox-change' handler (click time)
\* ------------------------------------------------------------------------

\* contextKey.split('|') and the four fields read out of its parts
ParseContext(contextKey) ==
    Let(Split(contextKey, "|"), LAMBDA contextParts :
        [rowText          |-> ReplaceFirst(contextParts[1], <<"R", "O", "W", ":">>, <<>>),
         cellPosition     |-> ParseInt(ReplaceFirst(contextParts[2], <<"C", "E", "L", "L", ":">>, <<>>)),
         offset           |-> ParseInt(ReplaceFirst(contextParts[3], <<"O", "F", "F", "S", "E", "T", ":">>, <<>>)),
         originalCheckbox |-> ReplaceFirst(contextParts[4], <<"C", "H", "E", "C", "K", "B", "O", "X", ":">>, <<>>)])

IsNumeric(word) == Len(word) > 0 /\ \A i \in 1..Len(word) : IsDigit(word[i])

\* keyWords: the words of the cleaned row text that are longer than 2, are not
\* '[x]' or '[ ]' and are not pure numbers
KeyWords(rowText) ==
    Let(Split(CleanText(rowText), " "), LAMBDA words :
        Filter(words, {i \in 1..Len(words) :
                         /\ Len(words[i]) > 2
                         /\ words[i] \notin {TokChecked, TokUnchecked}
                         /\ ~IsNumeric(words[i])}))

\* line.toLowerCase().split(/[\s|]+/).filter(w => w.length > 2)
LineWords(line) ==
    Let(SplitRuns(ToLowerCase(line), WhiteSpace \cup {"|"}), LAMBDA ws :
        Filter(ws, {i \in 1..Len(ws) : Len(ws[i]) > 2}))

\* matchedWords: the key words that contain, or are contained in, a line word
MatchedWords(keyWords, line) ==
    Let(<<keyWords, LineWords(line)>>, LAMBDA a :
        Filter(a[1], {i \in 1..Len(a[1]) :
            Let(ToLowerCase(a[1][i]), LAMBDA word :
                \E j \in 1..Len(a[2]) :
                    \/ Includes(a[2][j], word)
                    \/ Includes(word, a[2][j]))}))

\* line.split('|').map(cell => cell.trim()).filter(cell => cell !== '')
LineCells(line) ==
    Let(Split(line, "|"), LAMBDA segs :
        Let([i \in 1..Len(segs) |-> Trim(segs[i])], LAMBDA cs :
            Filter(cs, {i \in 1..Len(cs) : cs[i] # <<>>})))

\* a test that is content with the checkbox anywhere in the line
AnyCellHolds(line, cellPosition, originalCheckbox) == Includes(line, originalCheckbox)

\* the cell test that lets line i onto potentialMatches
CellHolds(line, cellPosition, originalCheckbox) ==
    /\ cellPosition.ok
    /\ cellPosition.val >= 0
    /\ Let(LineCells(line), LAMBDA lineCells :
            /\ cellPosition.val < Len(lineCells)
            /\ Includes(lineCells[cellPosition.val + 1], originalCheckbox))

\* The entry of one line in potentialMatches; matchScore 0 marks a line that is
\* not pushed: not a table row with the checkbox, no matched word, or the cell at
\* cellPosition does not hold the checkbox.
LineMatch(line, lineIndex, keyWords, cellPosition, originalCheckbox) ==
    IF Includes(line, <<"|">>) /\ Includes(line, originalCheckbox)
    THEN Let(Len(MatchedWords(keyWords, line)), LAMBDA n :
            [lineIndex  |-> lineIndex,
             matchScore |-> IF n > 0 /\ CellHolds(line, cellPosition, originalCheckbox)
                            THEN n ELSE 0])
    ELSE [lineIndex |-> lineIndex, matchScore |-> 0]

\* a loop that takes the first two lines for the header and the delimiter row of
\* the table and starts below them
PotentialMatchesBelowHeader(lines, keyWords, cellPosition, originalCheckbox) ==
    Let([i \in 1..Len(lines) |->
            LineMatch(lines[i], i - 1, keyWords, cellPosition, originalCheckbox)],
        LAMBDA all : Filter(all, {i \in 3..Len(all) : all[i].matchScore > 0}))

\* potentialMatches, in the order of the loop over the lines
PotentialMatches(lines, keyWords, cellPosition, originalCheckbox) ==
    Let([i \in 1..Len(lines) |->
            LineMatch(lines[i], i - 1, keyWords, cellPosition, originalCheckbox)],
        LAMBDA all : Filter(all, {i \in 1..Len(all) : all[i].matchScore > 0}))

\* the comparator with its score difference the other way round
SortsAscending(a, b) ==
    IF a.matchScore # b.matchScore THEN a.matchScore < b.matchScore
    ELSE a.lineIndex < b.lineIndex

\* the sort's comparator is negative: a goes before b
SortsBefore(a, b) ==
    IF a.matchScore # b.matchScore THEN a.matchScore > b.matchScore
    ELSE a.lineIndex < b.lineIndex

RECURSIVE InsertMatch(_, _)
InsertMatch(sorted, a) ==
    IF sorted = <<>> THEN <<a>>
    ELSE IF SortsBefore(a, Head(sorted)) THEN <<a>> \o sorted
    ELSE <<Head(sorted)>> \o InsertMatch(Tail(sorted), a)

RECURSIVE SortMatches(_)
\* potentialMatches.sort(...)
SortMatches(ms) ==
    IF ms = <<>> THEN <<>>
    ELSE InsertMatch(SortMatches(SubSeq(ms, 1, Len(ms) - 1)), ms[Len(ms)])

\* targetLineIndex: the line of the best match, -1 when there is none
TargetLineIndex(lines, ctx) ==
    Let(PotentialMatches(lines, KeyWords(ctx.rowText), ctx.cellPosition,
                         ctx.originalCheckbox),
        LAMBDA potentialMatches :
            IF Len(potentialMatches) > 0
            THEN SortMatches(potentialMatches)[1].lineIndex
            ELSE -1)

\* newCheckboxText = checked ? '[x]' : '[ ]'
NewCheckboxText(checked) == IF checked THEN TokChecked ELSE TokUnchecked

\* the tolerance of the in-cell offset comparison
OffsetTolerance == 2

\* the loop without the offset comparison: the first match with the token's text
FindMatchIgnoringOffset(targetCell, checkboxMatches, offset, originalCheckbox, k) ==
    IF \E m \in 1..Len(checkboxMatches) :
            Substring(targetCell, checkboxMatches[m], checkboxMatches[m] + 3)
              = originalCheckbox
    THEN checkboxMatches[CHOOSE m \in 1..Len(checkboxMatches) :
            /\ Substring(targetCell, checkboxMatches[m], checkboxMatches[m] + 3)
                 = originalCheckbox
            /\ \A n \in 1..(m - 1) :
                 Substring(targetCell, checkboxMatches[n], checkboxMatches[n] + 3)
                   # originalCheckbox]
    ELSE -1

\* the first match of the cell that lies within the tolerance of `offset` and
\* whose text is originalCheckbox (the for loop with its break); -1 when the
\* loop ends without a replacement (replacementMade stays false)
RECURSIVE FindMatchAtOffset(_, _, _, _, _)
FindMatchAtOffset(targetCell, checkboxMatches, offset, originalCheckbox, k) ==
    IF k > Len(checkboxMatches) THEN -1
    ELSE IF /\ offset.ok
            /\ Abs(checkboxMatches[k] - offset.val) <= OffsetTolerance
            /\ Substring(targetCell, checkboxMatches[k], checkboxMatches[k] + 3)
                 = originalCheckbox
         THEN checkboxMatches[k]
    ELSE FindMatchAtOffset(targetCell, checkboxMatches, offset, originalCheckbox, k + 1)

\* updatedLine = '| ' + lineCells.join(' | ') + ' |'
RebuildLine(lineCells) ==
    <<"|", " ">> \o Join(lineCells, <<" ", "|", " ">>) \o <<" ", "|">>

\* lines[targetLineIndex] = updatedLine; updatedContent = lines.join('\n')
WithLine(lines, targetLineIndex, updatedLine) ==
    Join([lines EXCEPT ![targetLineIndex + 1] = updatedLine], <<NL>>)

\* vault.modify is called only under `updatedLine !== targetLine`
SubstringReplaceLine(lines, targetLineIndex, originalCheckbox, newCheckboxText, path) ==
    Let(ReplaceFirst(lines[targetLineIndex + 1], originalCheckbox, newCheckboxText),
        LAMBDA updatedLine :
            IF updatedLine # lines[targetLineIndex + 1]
            THEN [write |-> TRUE, path |-> path, target |-> targetLineIndex,
                  text |-> WithLine(lines, targetLineIndex, updatedLine)]
            ELSE [write |-> FALSE, path |-> path, target |-> targetLineIndex,
                  text |-> Join(lines, <<NL>>)])

\* the branch of more than one checkbox in the target cell: the replacement at
\* the match's own offset and the rebuilt line are written without a comparison
OffsetReplaceLine(lines, targetLineIndex, lineCells, cellPosition, at, newCheckboxText) ==
    LET targetCell  == lineCells[cellPosition + 1]
        updatedCell == Substring(targetCell, 0, at) \o newCheckboxText
                       \o Substring(targetCell, at + 3, Len(targetCell))
        updatedLine == RebuildLine([lineCells EXCEPT ![cellPosition + 1] = updatedCell])
    IN  [write |-> TRUE, path |-> "offset", target |-> targetLineIndex,
         text |-> WithLine(lines, targetLineIndex, updatedLine)]

\* the body of `if (targetLineIndex >= 0)`
PatchTargetLine(lines, targetLineIndex, ctx, newCheckboxText) ==
    Let(LineCells(lines[targetLineIndex + 1]), LAMBDA lineCells :
        IF ctx.cellPosition.ok /\ ctx.cellPosition.val < Len(lineCells)
        THEN Let(MatchAll(lineCells[ctx.cellPosition.val + 1]), LAMBDA checkboxMatches :
                IF Len(checkboxMatches) > 1
                THEN Let(FindMatchAtOffset(lineCells[ctx.cellPosition.val + 1],
                                           checkboxMatches, ctx.offset,
                                           ctx.originalCheckbox, 1),
                         LAMBDA at :
                            IF at >= 0
                            THEN OffsetReplaceLine(lines, targetLineIndex, lineCells,
                                                   ctx.cellPosition.val, at,
                                                   newCheckboxText)
                            ELSE SubstringReplaceLine(lines, targetLineIndex,
                                                      ctx.originalCheckbox,
                                                      newCheckboxText, "lineFallback"))
                ELSE SubstringReplaceLine(lines, targetLineIndex, ctx.originalCheckbox,
                                          newCheckboxText, "single"))
        ELSE [write |-> FALSE, path |-> "none", target |-> targetLineIndex,
              text |-> Join(lines, <<NL>>)])

\* the fallback with a replacement of every occurrence
PatchGlobalAll(content, originalCheckbox, newCheckboxText) ==
    LET updatedContent ==
            [p \in 1..Len(content) |->
                IF \E i \in (p - 3)..(p - 1) :
                        /\ i >= 0
                        /\ i + 3 <= Len(content)
                        /\ Substring(content, i, i + 3) = originalCheckbox
                THEN newCheckboxText[p - (CHOOSE i \in (p - 3)..(p - 1) :
                        /\ i >= 0
                        /\ i + 3 <= Len(content)
                        /\ Substring(content, i, i + 3) = originalCheckbox)]
                ELSE content[p]]
    IN  [write |-> updatedContent # content, path |-> "global", target |-> -1,
         text |-> updatedContent]

\* the else branch: content.replace(originalCheckbox, newCheckboxText), written
\* only when it differs from content
PatchGlobal(content, originalCheckbox, newCheckboxText) ==
    Let(ReplaceFirst(content, originalCheckbox, newCheckboxText), LAMBDA updatedContent :
        [write |-> updatedContent # content, path |-> "global", target |-> -1,
         text |-> updatedContent])

\* The continuation of vault.read for one event {checked, contextKey}: what it
\* hands to vault.modify (text, when write) and the way it took.
HandleRead(content, checked, contextKey) ==
    Let(<<ParseContext(contextKey), Split(content, NL)>>, LAMBDA a :
        Let(TargetLineIndex(a[2], a[1]), LAMBDA targetLineIndex :
            IF targetLineIndex >= 0
            THEN PatchTargetLine(a[2], targetLineIndex, a[1], NewCheckboxText(checked))
            ELSE PatchGlobal(content, a[1].originalCheckbox, NewCheckboxText(checked))))

\* ------------------------------------------------------------------------
\* Documents
\* ------------------------------------------------------------------------

\* | Shopping | [x] Milk [x] Bread [ ] Eggs |   (the multi-checkbox row of README.md and of the spec)
RowShopping ==
    <<"|", " ", "S", "h", "o", "p", "p", "i", "n", "g", " ", "|", " ", "[", "x", "]", " ", "M", "i", "l", "k", " ", "[", "x", "]", " ", "B", "r", "e", "a", "d", " ", "[", " ", "]", " ", "E", "g", "g", "s", " ", "|">>

\* | Write documentation | [x] | High |   (README.md, single checkbox per cell)
RowDocumentation ==
    <<"|", " ", "W", "r", "i", "t", "e", " ", "d", "o", "c", "u", "m", "e", "n", "t", "a", "t", "i", "o", "n", " ", "|", " ", "[", "x", "]", " ", "|", " ", "H", "i", "g", "h", " ", "|">>

\* | Write tests | [x] | High |   (the same row but for one key word)
RowTests ==
    <<"|", " ", "W", "r", "i", "t", "e", " ", "t", "e", "s", "t", "s", " ", "|", " ", "[", "x", "]", " ", "|", " ", "H", "i", "g", "h", " ", "|">>

\* | Task [x] | [x] |   (checkboxes in two cells of one row)
RowTwoCells ==
    <<"|", " ", "T", "a", "s", "k", " ", "[", "x", "]", " ", "|", " ", "[", "x", "]", " ", "|">>

\* | Fix bugs | | [X] |   (an empty cell before the checkbox cell)
RowEmptyCell ==
    <<"|", " ", "F", "i", "x", " ", "b", "u", "g", "s", " ", "|", " ", "|", " ", "[", "X", "]", " ", "|">>

\* | Plan | [x] [ ] | |   (an empty cell after the cell with two checkboxes)
RowEmptyAfter ==
    <<"|", " ", "P", "l", "a", "n", " ", "|", " ", "[", "x", "]", " ", "[", " ", "]", " ", "|", " ", "|">>

\* | [x] |   (a row without any key word)
RowNoWords ==
    <<"|", " ", "[", "x", "]", " ", "|">>

\* Review|[X] [x]   (no outer pipes, no padding)
RowUnpadded ==
    <<"R", "e", "v", "i", "e", "w", "|", "[", "X", "]", " ", "[", "x", "]">>

\* | Deploy | [x][x] [ ] |   (two tokens side by side)
RowAdjacent ==
    <<"|", " ", "D", "e", "p", "l", "o", "y", " ", "|", " ", "[", "x", "]", "[", "x", "]", " ", "[", " ", "]", " ", "|">>

\* | Run test | [ ] |   (key word `test` ...)
RowRunTest ==
    <<"|", " ", "R", "u", "n", " ", "t", "e", "s", "t", " ", "|", " ", "[", " ", "]", " ", "|">>

\* | Run tests | [ ] |   (... is part of key word `tests`)
RowRunTests ==
    <<"|", " ", "R", "u", "n", " ", "t", "e", "s", "t", "s", " ", "|", " ", "[", " ", "]", " ", "|">>

\* - [x] note   (a token outside any table)
LinePlain ==
    <<"-", " ", "[", "x", "]", " ", "n", "o", "t", "e">>

\* the header and delimiter rows of the tables below, by number of columns
Header1 ==
    <<"|", " ", "D", "o", "n", "e", " ", "|">>

Delimiter1 ==
    <<"|", "-", "-", "-", "|">>

Header2 ==
    <<"|", " ", "T", "a", "s", "k", " ", "|", " ", "D", "o", "n", "e", " ", "|">>

Delimiter2 ==
    <<"|", "-", "-", "-", "|", "-", "-", "-", "|">>

Header3 ==
    <<"|", " ", "T", "a", "s", "k", " ", "|", " ", "D", "o", "n", "e", " ", "|", " ", "P", "r", "i", "o", "r", "i", "t", "y", " ", "|">>

Delimiter3 ==
    <<"|", "-", "-", "-", "|", "-", "-", "-", "|", "-", "-", "-", "|">>

\* Who|Done and -|-   (a table without outer pipes)
HeaderUnpadded ==
    <<"W", "h", "o", "|", "D", "o", "n", "e">>

DelimiterUnpadded ==
    <<"-", "|", "-">>

\* the text of a document of the given lines
Doc(lines) == Join(lines, <<NL>>)

\* a table of 1, 2 or 3 columns with the given body rows
Table1(rows) == Doc(<<Header1, Delimiter1>> \o rows)

Table2(rows) == Doc(<<Header2, Delimiter2>> \o rows)

Table3(rows) == Doc(<<Header3, Delimiter3>> \o rows)

\* The documents the rendered view starts from: tables with one body row, tables
\* with two (rows that differ in a key word, rows that share their key words,
\* the same row twice), and a table below a list item that holds a token.
Documents ==
    {Table2(<<RowShopping>>), Table2(<<RowTwoCells>>), Table3(<<RowEmptyCell>>),
     Table1(<<RowNoWords>>), Table2(<<RowAdjacent>>),
     Doc(<<HeaderUnpadded, DelimiterUnpadded, RowUnpadded>>),
     Table3(<<RowDocumentation, RowTests>>), Table2(<<RowRunTests, RowRunTest>>),
     Table2(<<RowRunTest, RowRunTest>>),
     Doc(<<LinePlain, <<>>, Header1, Delimiter1, RowNoWords>>),
     Table3(<<RowEmptyAfter>>)}

\* the buffers the editor starts from: the text of one cell under edit (no `|`),
\* a table, and a token above a table
LiveBuffers ==
    {<<"[", "x", "]">>,
     <<"[", "X", "]", " ", "[", " ", "]">>,
     <<"[", "a", "]", " ", "b">>,
     <<"|", "a", "|", NL, "|", "-", "|", NL, "|", "[", "x", "]", "|">>,
     <<"|", "a", "|", NL, "|", "-", "|", NL, "|", "[", "X", "]", " ", "[", " ", "]", "|">>,
     <<"[", " ", "]", NL, NL, "|", "a", "|", NL, "|", "-", "|">>}

\* ------------------------------------------------------------------------
\* Live view: the view plugin's decorations
\* ------------------------------------------------------------------------

\* view.state.doc.slice(from, to).toString()
Slice(doc, from, to) == Substring(doc, from, to)

\* a scan that places the matches of a visible range by their offsets in the
\* range, not in the document
ProcessCheckboxesInRange(text, offset, cursorPos) ==
    Let(<<text, MatchAll(text)>>, LAMBDA a :
        Let([k \in 1..Len(a[2]) |->
                [start   |-> a[2][k],
                 end     |-> a[2][k] + 3,
                 checked |-> IsCheckedToken(Substring(a[1], a[2][k], a[2][k] + 3))]],
            LAMBDA ds :
                Filter(ds, {k \in 1..Len(ds) :
                              ~(cursorPos > ds[k].start /\ cursorPos < ds[k].end)})))

\* processCheckboxesInContent: the decorations added for one visible range, in
\* the order of builder.add. A decoration is the range [start, end) it replaces
\* and the checked flag of its widget.
ProcessCheckboxesInContent(text, offset, cursorPos) ==
    Let(<<text, MatchAll(text)>>, LAMBDA a :
        Let([k \in 1..Len(a[2]) |->
                [start   |-> offset + a[2][k],
                 end     |-> offset + a[2][k] + 3,
                 checked |-> IsCheckedToken(Substring(a[1], a[2][k], a[2][k] + 3))]],
            LAMBDA ds :
                Filter(ds, {k \in 1..Len(ds) :
                              ~(cursorPos > ds[k].start /\ cursorPos < ds[k].end)})))

\* the enter callback on one table-row node: the decorations it pushes onto
\* checkboxDecorations
EnterTableRow(rowContent, nodeFrom, cursorPos) ==
    Let(<<rowContent, MatchAll(rowContent)>>, LAMBDA a :
        Let([k \in 1..Len(a[2]) |->
                [start   |-> nodeFrom + a[2][k],
                 end     |-> nodeFrom + a[2][k] + 3,
                 checked |-> IsCheckedToken(Substring(a[1], a[2][k], a[2][k] + 3))]],
            LAMBDA ds :
                Filter(ds, {k \in 1..Len(ds) :
                              ~(cursorPos > ds[k].start /\ cursorPos < ds[k].end)})))

RECURSIVE InsertByStart(_, _)
InsertByStart(sorted, d) ==
    IF sorted = <<>> THEN <<d>>
    ELSE IF d.start < sorted[Len(sorted)].start
         THEN Append(InsertByStart(SubSeq(sorted, 1, Len(sorted) - 1), d),
                     sorted[Len(sorted)])
    ELSE Append(sorted, d)

\* the collected decorations in the order they were pushed
AsPushed(ds) == ds

RECURSIVE SortByStart(_)
\* checkboxDecorations.sort((a, b) => a.start - b.start): equal starts keep
\* their order
SortByStart(ds) ==
    IF ds = <<>> THEN <<>>
    ELSE InsertByStart(SortByStart(SubSeq(ds, 1, Len(ds) - 1)), ds[Len(ds)])

\* processCheckboxesInTable: the decorations of every table-row node the
\* iteration enters, collected, sorted by start and added in that order
ProcessCheckboxesInTable(doc, rowNodes, cursorPos) ==
    SortByStart(Flatten([k \in 1..Len(rowNodes) |->
                            EnterTableRow(Slice(doc, rowNodes[k].from, rowNodes[k].to),
                                          rowNodes[k].from, cursorPos)], 1))

\* a build that scans the visible ranges whatever the document holds
BuildDecorationsInRanges(doc, cursorPos, ranges, rowNodes) ==
    Flatten([k \in 1..Len(ranges) |->
                ProcessCheckboxesInContent(Slice(doc, ranges[k].from, ranges[k].to),
                                           ranges[k].from, cursorPos)], 1)

\* buildDecorations: the decoration set of one build
BuildDecorations(doc, cursorPos, ranges, rowNodes) ==
    IF ~Includes(doc, <<"|">>) /\ Includes(doc, <<"[">>)
    THEN Flatten([k \in 1..Len(ranges) |->
                    ProcessCheckboxesInContent(Slice(doc, ranges[k].from, ranges[k].to),
                                               ranges[k].from, cursorPos)], 1)
    ELSE IF Includes(doc, <<"|">>)
    THEN ProcessCheckboxesInTable(doc, rowNodes, cursorPos)
    ELSE <<>>

\* The shapes of syntax tree the host's parser may hand to the iteration:
\* one table-row node per row line ("rows"), a row node with a table-row node
\* nested in it ("nested"), one node per piece between two pipes ("cells"), or
\* no table-row node at all ("none").
TreeShapes == {"rows", "nested", "cells", "none"}

\* the table-row nodes of one line that begins at lineStart, in the order the
\* iteration enters them (a parent before its children)
LineRowNodes(line, lineStart, shape) ==
    IF ~IsRowLine(line) \/ shape = "none" THEN <<>>
    ELSE IF shape = "rows"
    THEN <<[from |-> lineStart, to |-> lineStart + Len(line)]>>
    ELSE IF shape = "nested"
    THEN <<[from |-> lineStart, to |-> lineStart + Len(line)],
           [from |-> lineStart + 1, to |-> lineStart + Len(line) - 1]>>
    ELSE Let(<<Split(line, "|"),
               Ascending({i \in 0..(Len(line) - 1) : line[i + 1] = "|"})>>,
             LAMBDA a :
                [k \in 1..Len(a[1]) |->
                    [from |-> lineStart + PartStart(a[2], k),
                     to   |-> lineStart + PartStart(a[2], k) + Len(a[1][k])]])

\* syntaxTree(view.state).iterate over the whole document: the nodes whose type
\* name includes "table-row"
TableRowNodes(doc, shape) ==
    Let(<<Split(doc, NL), Ascending({i \in 0..(Len(doc) - 1) : doc[i + 1] = NL})>>,
        LAMBDA a :
            Flatten([k \in 1..Len(a[1]) |->
                        LineRowNodes(a[1][k], PartStart(a[2], k), shape)], 1))

\* view.visibleRanges: the whole document, its first half, or two ranges with
\* a folded character between them
Viewports(doc) ==
    {<<[from |-> 0, to |-> Len(doc)]>>,
     <<[from |-> 0, to |-> Len(doc) \div 2]>>,
     <<[from |-> 0, to |-> Len(doc) \div 2],
       [from |-> Len(doc) \div 2 + 1, to |-> Len(doc)]>>}

\* the change with its range one character early
ClickChangeAtStart(start, inputChecked) ==
    [from |-> start, to |-> start + 1,
     insert |-> IF inputChecked THEN <<"x">> ELSE <<" ">>]

\* the change the click listener dispatches for a widget at `start` whose input
\* has just become `inputChecked`
ClickChange(start, inputChecked) ==
    [from |-> start + 1, to |-> start + 2,
     insert |-> IF inputChecked THEN <<"x">> ELSE <<" ">>]

\* the document after a transaction with one change
ApplyChange(doc, change) ==
    Substring(doc, 0, change.from) \o change.insert
    \o Substring(doc, change.to, Len(doc))

\* ------------------------------------------------------------------------
\* Editor: cleanupAnnotations on file-open
\* ------------------------------------------------------------------------

\* \d+ at offset i of s: the offset after the run of digits that starts there
DigitsEnd(s, i) ==
    CHOOSE e \in i..Len(s) :
        /\ \A p \in (i + 1)..e : IsDigit(s[p])
        /\ e = Len(s) \/ ~IsDigit(s[e + 1])

\* \{\d+\} at offset i of s: the offset after the closing brace, -1 without a
\* match
BracedEnd(s, i) ==
    IF i < Len(s) /\ s[i + 1] = "{"
    THEN Let(DigitsEnd(s, i + 1), LAMBDA e :
            IF e > i + 1 /\ e < Len(s) /\ s[e + 1] = "}" THEN e + 1 ELSE -1)
    ELSE -1

\* /\{\d+\}\{\d+\}/ at offset i of s: the offset after the match, -1 without
AnnotationEnd(s, i) ==
    Let(BracedEnd(s, i), LAMBDA m : IF m < 0 THEN -1 ELSE BracedEnd(s, m))

RECURSIVE RemoveAnnotations(_, _)
\* replace(/\{\d+\}\{\d+\}/g, '') from offset i on: the scan goes left to
\* right and resumes after each match, on the text as it was given
RemoveAnnotations(s, i) ==
    IF i >= Len(s) THEN <<>>
    ELSE Let(AnnotationEnd(s, i), LAMBDA e :
            IF e < 0 THEN <<s[i + 1]>> \o RemoveAnnotations(s, i + 1)
            ELSE RemoveAnnotations(s, e))

\* cleanedContent of cleanupAnnotations
CleanedContent(content) == RemoveAnnotations(content, 0)

\* texts the editor may hold when a file is opened: up to three of these pieces
AnnotationPieces ==
    {<<>>, <<"{", "4", "}", "{", "1", "1", "}">>, <<"{", "1">>, <<"}", "{", "4", "}">>, <<"[", "x", "]">>, <<" ", "d", "o", "n", "e">>, <<"{", "2", "}">>}

EditorTexts == {a \o b \o c : a, b, c \in AnnotationPieces}

\* ------------------------------------------------------------------------
\* State
\* ------------------------------------------------------------------------

VARIABLES
    mode,          \* "rendered" or "live": the one presentation mode that is active
    content,       \* rendered view: the text of the file in the vault
    rendered,      \* rendered view: the text the controls on screen were rendered from
    controls,      \* rendered view: the input elements on screen (RenderControls)
    clicks,        \* rendered view: one record per click, in click order
    applied,       \* rendered view: the number of vault.modify writes applied so far
    buffer,        \* live view: view.state.doc
    cursor,        \* live view: view.state.selection.main.head
    visibleRanges, \* live view: view.visibleRanges
    tree,          \* live view: the shape of the syntax tree of the buffer
    decorations,   \* live view: CheckPleaseViewPlugin.decorations, in builder order
    lastClick,     \* live view: the last click, with the buffer before it
    edits,         \* the number of edits the user has made to the text
    opens,         \* editor: one record per file-open event, in order
    payload        \* one input element: what it was rendered from, its
                   \* data-context attribute and what the handler parsed from it

renderedVars == <<content, rendered, controls, clicks, applied>>

liveVars == <<buffer, cursor, visibleRanges, tree, decorations, lastClick, edits>>

editorVars == <<opens>>

payloadVars == <<payload>>

vars == <<mode, content, rendered, controls, clicks, applied,
          buffer, cursor, visibleRanges, tree, decorations, lastClick, edits,
          opens, payload>>

\* the clicks one behaviour of the rendered view makes
MaxClicks == 2

\* the file-open events one behaviour of the editor sees
MaxOpens == 2

\* the edits the user makes to the text in one behaviour
MaxEdits == 1

NoClick == [before |-> <<>>, start |-> -1, checked |-> FALSE]

NoParse == [rowText |-> <<>>, cellPosition |-> [ok |-> FALSE, val |-> 0],
            offset |-> [ok |-> FALSE, val |-> 0], originalCheckbox |-> <<>>]

NoPayload == [rowText |-> <<>>, cellPosition |-> 0, offset |-> 0, checkboxMatch |-> <<>>,
              attribute |-> <<>>, parsed |-> NoParse, dispatched |-> FALSE]

NoResult == [write |-> FALSE, path |-> "pending", target |-> -1, text |-> <<>>]

\* ------------------------------------------------------------------------
\* Rendered view: operations
\* ------------------------------------------------------------------------

InitRendered ==
    /\ mode = "rendered"
    /\ content \in Documents
    /\ rendered = content
    /\ controls = RenderControls(content)
    /\ clicks = <<>>
    /\ applied = 0
    /\ buffer = <<>>
    /\ cursor = 0
    /\ visibleRanges = <<>>
    /\ tree = "none"
    /\ decorations = <<>>
    /\ lastClick = NoClick
    /\ edits = 0
    /\ opens = <<>>
    /\ payload = NoPayload

\* The user clicks control i. The input flips its own state, its onchange
\* dispatches {checked, contextKey} and the handler starts vault.read. The key
\* is the one of the render: data-context carries encodeURIComponent of it,
\* which leaves no character an attribute value would alter, and the event
\* carries decodeURIComponent of the attribute.
ClickControl(i) ==
    /\ mode = "rendered"
    /\ i \in 1..Len(controls)
    /\ Len(clicks) < MaxClicks
    /\ controls' = [controls EXCEPT ![i].checked = ~controls[i].checked]
    /\ clicks' = Append(clicks,
            [checked    |-> ~controls[i].checked,
             contextKey |-> controls[i].context,
             original   |-> controls[i].original,
             from       |-> rendered,
             src        |-> controls[i].src,
             line       |-> controls[i].line,
             td         |-> controls[i].td,
             cell       |-> controls[i].cell,
             nth        |-> controls[i].nth,
             phase      |-> "reading",
             read       |-> <<>>,
             readAt     |-> 0,
             result     |-> NoResult,
             appliedAt  |-> 0])
    /\ UNCHANGED <<mode, content, rendered, applied>>
    /\ UNCHANGED liveVars
    /\ UNCHANGED editorVars
    /\ UNCHANGED payloadVars

\* vault.read of click j resolves with the current text and its continuation
\* runs to the end: at most one vault.modify call, with the full updated text.
\* readAt is the number of writes that had reached the file by then.
ReadResolves(j) ==
    /\ mode = "rendered"
    /\ j \in 1..Len(clicks)
    /\ clicks[j].phase = "reading"
    /\ LET r == HandleRead(content, clicks[j].checked, clicks[j].contextKey)
       IN  clicks' = [clicks EXCEPT ![j].read = content,
                                    ![j].readAt = applied,
                                    ![j].result = r,
                                    ![j].phase = IF r.write THEN "writing" ELSE "done"]
    /\ UNCHANGED <<mode, content, rendered, controls, applied>>
    /\ UNCHANGED liveVars
    /\ UNCHANGED editorVars
    /\ UNCHANGED payloadVars

\* a write that patches the file with what the caller changed in its own read
MergedContent(current, read, text) ==
    IF Len(current) = Len(read) /\ Len(text) = Len(read)
    THEN [p \in 1..Len(text) |-> IF text[p] # read[p] THEN text[p] ELSE current[p]]
    ELSE text

\* the text a vault.modify call leaves in the file: the whole text it was
\* given, whatever the file holds and whatever the caller had read
ModifiedContent(current, read, text) == text

\* the write of click j reaches the file
ModifyApplies(j) ==
    /\ mode = "rendered"
    /\ j \in 1..Len(clicks)
    /\ clicks[j].phase = "writing"
    /\ content' = ModifiedContent(content, clicks[j].read, clicks[j].result.text)
    /\ applied' = applied + 1
    /\ clicks' = [clicks EXCEPT ![j].phase = "done", ![j].appliedAt = applied + 1]
    /\ UNCHANGED <<mode, rendered, controls>>
    /\ UNCHANGED liveVars
    /\ UNCHANGED editorVars
    /\ UNCHANGED payloadVars

\* the host renders the changed file again: the post-processor runs on the new
\* elements and the old controls are gone
Rerender ==
    /\ mode = "rendered"
    /\ \/ rendered # content
       \/ \E i \in 1..Len(controls) :
            controls[i].checked # IsCheckedToken(controls[i].original)
    /\ rendered' = content
    /\ controls' = RenderControls(content)
    /\ UNCHANGED <<mode, content, clicks, applied>>
    /\ UNCHANGED liveVars
    /\ UNCHANGED editorVars
    /\ UNCHANGED payloadVars

\* the lines of a text with the last two in each other's place
LastTwoSwapped(lines) ==
    [k \in 1..Len(lines) |->
        IF k = Len(lines) - 1 THEN lines[Len(lines)]
        ELSE IF k = Len(lines) THEN lines[Len(lines) - 1]
        ELSE lines[k]]

\* The file changes under the rendered view (an edit in another pane, a sync):
\* the last two body rows of the table come to stand in each other's place.
\* The controls on screen and their fingerprints stay as rendered until the
\* host renders again.
MoveLines ==
    /\ mode = "rendered"
    /\ LET lines == Split(content, NL)
       IN  /\ Len(lines) >= 4
           /\ IsDelimiterRow(lines[Len(lines) - 2])
           /\ lines[Len(lines) - 1] # lines[Len(lines)]
           /\ content' = Doc(LastTwoSwapped(lines))
    /\ UNCHANGED <<mode, rendered, controls, clicks, applied>>
    /\ UNCHANGED liveVars
    /\ UNCHANGED editorVars
    /\ UNCHANGED payloadVars

\* | Write documentation | High |   (a row with the key words of a body row and no checkbox)
RowWithoutCheckbox ==
    <<"|", " ", "W", "r", "i", "t", "e", " ", "d", "o", "c", "u", "m", "e", "n", "t", "a", "t", "i", "o", "n", " ", "|", " ", "H", "i", "g", "h", " ", "|">>

\* the lines an edit may insert: an empty line, or a table row without checkbox
InsertedLines == {<<>>, RowWithoutCheckbox}

\* lines with one more line before its line at 0-based index k
LineInserted(lines, k, line) ==
    SubSeq(lines, 1, k) \o <<line>> \o SubSeq(lines, k + 1, Len(lines))

\* lines without its line at 0-based index k
LineDeleted(lines, k) ==
    SubSeq(lines, 1, k) \o SubSeq(lines, k + 2, Len(lines))

\* The file is edited under the rendered view: a line without checkbox token
\* is inserted, or a line without checkbox token is deleted. The controls on
\* screen and their fingerprints stay as rendered until the host renders again.
EditLines(k, line, insert) ==
    /\ mode = "rendered"
    /\ edits < MaxEdits
    /\ LET lines == Split(content, NL)
       IN  /\ k \in 0..Len(lines)
           /\ IF insert
              THEN /\ line \in InsertedLines
                   /\ content' = Doc(LineInserted(lines, k, line))
              ELSE /\ k < Len(lines)
                   /\ Len(lines) > 1
                   /\ line = lines[k + 1]
                   /\ MatchAll(line) = <<>>
                   /\ content' = Doc(LineDeleted(lines, k))
    /\ edits' = edits + 1
    /\ UNCHANGED <<mode, rendered, controls, clicks, applied>>
    /\ UNCHANGED <<buffer, cursor, visibleRanges, tree, decorations, lastClick>>
    /\ UNCHANGED editorVars
    /\ UNCHANGED payloadVars

NextRendered ==
    \/ \E i \in 1..Len(controls) : ClickControl(i)
    \/ \E j \in 1..Len(clicks) : ReadResolves(j)
    \/ \E j \in 1..Len(clicks) : ModifyApplies(j)
    \/ Rerender
    \/ MoveLines

\* ------------------------------------------------------------------------
\* Live view: operations
\* ------------------------------------------------------------------------

\* new CheckPleaseViewPlugin(view): the constructor builds the first set
InitLive ==
    /\ mode = "live"
    /\ buffer \in LiveBuffers
    /\ cursor \in 0..Len(buffer)
    /\ visibleRanges \in Viewports(buffer)
    /\ tree \in (IF Includes(buffer, <<"|">>) THEN TreeShapes ELSE {"none"})
    /\ decorations = BuildDecorations(buffer, cursor, visibleRanges,
                                      TableRowNodes(buffer, tree))
    /\ lastClick = NoClick
    /\ edits = 0
    /\ opens = <<>>
    /\ payload = NoPayload
    /\ content = <<>>
    /\ rendered = <<>>
    /\ controls = <<>>
    /\ clicks = <<>>
    /\ applied = 0

\* The user clicks the widget of decoration i: the input flips, the listener
\* dispatches the one-character change and update() sees docChanged and builds
\* the set again. The selection is mapped through the change and stays.
LiveClick(i) ==
    /\ mode = "live"
    /\ i \in 1..Len(decorations)
    /\ buffer' = ApplyChange(buffer, ClickChange(decorations[i].start,
                                                 ~decorations[i].checked))
    /\ decorations' = BuildDecorations(buffer', cursor, visibleRanges,
                                       TableRowNodes(buffer', tree))
    /\ lastClick' = [before  |-> buffer,
                     start   |-> decorations[i].start,
                     checked |-> ~decorations[i].checked]
    /\ UNCHANGED <<mode, cursor, visibleRanges, tree, edits>>
    /\ UNCHANGED renderedVars
    /\ UNCHANGED editorVars
    /\ UNCHANGED payloadVars

\* The selection moves: update() sees neither docChanged nor viewportChanged
\* and keeps the decorations it has.
MoveCursor(c) ==
    /\ mode = "live"
    /\ c \in 0..Len(buffer)
    /\ c # cursor
    /\ cursor' = c
    /\ UNCHANGED <<mode, buffer, visibleRanges, tree, decorations, lastClick, edits>>
    /\ UNCHANGED renderedVars
    /\ UNCHANGED editorVars
    /\ UNCHANGED payloadVars

\* The viewport changes (a scroll, a fold): update() sees viewportChanged and
\* builds the set again.
ViewportChange(v) ==
    /\ mode = "live"
    /\ v \in Viewports(buffer)
    /\ v # visibleRanges
    /\ visibleRanges' = v
    /\ decorations' = BuildDecorations(buffer, cursor, v, TableRowNodes(buffer, tree))
    /\ UNCHANGED <<mode, buffer, cursor, tree, lastClick, edits>>
    /\ UNCHANGED renderedVars
    /\ UNCHANGED editorVars
    /\ UNCHANGED payloadVars

\* the changes the user types with the cursor at the start of the document: a
\* space, or Delete on the first character
TypedChanges(doc) ==
    {[from |-> 0, to |-> 0, insert |-> <<" ">>]}
    \cup (IF doc = <<>> THEN {} ELSE {[from |-> 0, to |-> 1, insert |-> <<>>]})

\* The user types at the start of the document: the transaction changes the
\* document and leaves the cursor after what it inserted, the host lays the
\* viewport out again, and update() sees docChanged and builds the set again.
TypeAtStart(change, v) ==
    /\ mode = "live"
    /\ edits < MaxEdits
    /\ cursor = 0
    /\ change \in TypedChanges(buffer)
    /\ buffer' = ApplyChange(buffer, change)
    /\ cursor' = change.from + Len(change.insert)
    /\ v \in Viewports(buffer')
    /\ visibleRanges' = v
    /\ decorations' = BuildDecorations(buffer', cursor', v, TableRowNodes(buffer', tree))
    /\ lastClick' = NoClick
    /\ edits' = edits + 1
    /\ UNCHANGED <<mode, tree>>
    /\ UNCHANGED renderedVars
    /\ UNCHANGED editorVars
    /\ UNCHANGED payloadVars

NextLive ==
    \/ \E i \in 1..Len(decorations) : LiveClick(i)
    \/ \E c \in 0..Len(buffer) : MoveCursor(c)
    \/ \E v \in Viewports(buffer) : ViewportChange(v)
    \/ \E change \in TypedChanges(buffer) :
            \E v \in Viewports(ApplyChange(buffer, change)) : TypeAtStart(change, v)

\* ------------------------------------------------------------------------
\* Editor: operations
\* ------------------------------------------------------------------------

\* an editor holding the text of a file, before any file-open event
InitEditor ==
    /\ mode = "editor"
    /\ buffer \in EditorTexts
    /\ opens = <<>>
    /\ payload = NoPayload
    /\ cursor = 0
    /\ visibleRanges = <<>>
    /\ tree = "none"
    /\ decorations = <<>>
    /\ lastClick = NoClick
    /\ edits = 0
    /\ content = <<>>
    /\ rendered = <<>>
    /\ controls = <<>>
    /\ clicks = <<>>
    /\ applied = 0

\* the extensions a file handed to the 'file-open' handler may have; "" is no
\* file at all
FileExtensions == {"md", "canvas", ""}

\* The 'file-open' handler: it returns for no file, for a file that is not
\* Markdown and without an active editor; otherwise cleanupAnnotations reads the
\* editor, and calls editor.setValue when the cleaned text differs.
FileOpen(extension, hasEditor) ==
    /\ mode = "editor"
    /\ Len(opens) < MaxOpens
    /\ LET cleaned == extension = "md" /\ hasEditor
           set == cleaned /\ CleanedContent(buffer) # buffer
       IN  /\ buffer' = IF set THEN CleanedContent(buffer) ELSE buffer
           /\ opens' = Append(opens, [extension |-> extension,
                                      editor    |-> hasEditor,
                                      cleaned   |-> cleaned,
                                      before    |-> buffer,
                                      setValue  |-> set])
    /\ UNCHANGED <<mode, cursor, visibleRanges, tree, decorations, lastClick, edits>>
    /\ UNCHANGED renderedVars
    /\ UNCHANGED payloadVars

NextEditor ==
    \E extension \in FileExtensions, hasEditor \in BOOLEAN : FileOpen(extension, hasEditor)

\* ------------------------------------------------------------------------
\* One input element: from the render of its data-context to the handler
\* ------------------------------------------------------------------------

\* row.textContent of rendered rows: a row of the documents above, and rows
\* whose cells hold a pipe (written `\\|` in the source), a field label of the
\* payload, or a percent sign
RowTexts ==
    {RowTextAt(RowChildren(RowRunTest), 1),
     <<NL, "a", " ", "|", " ", "b", NL, "[", "x", "]", NL>>,
     <<NL, "R", "O", "W", ":", "1", NL, "[", "x", "]", NL>>,
     <<NL, "C", "E", "L", "L", ":", "7", " ", "O", "F", "F", "S", "E", "T", ":", "9", NL, "[", "X", "]", NL>>,
     <<NL, "1", "0", "0", "%", NL, "[", " ", "]", NL>>,
     <<NL, "C", "H", "E", "C", "K", "B", "O", "X", ":", NL, "[", "x", "]", NL>>}

\* the largest cell position and the largest in-cell offset of the rendered inputs
MaxCellPosition == 2

MaxOffset == 12

\* the post-processor has rendered one input element for a token
InitPayload ==
    /\ mode = "payload"
    /\ \E rowText \in RowTexts, cellPosition \in 0..MaxCellPosition,
          offset \in 0..MaxOffset,
          checkboxMatch \in {TokChecked, TokCheckedUpper, TokUnchecked} :
            payload = [rowText       |-> rowText,
                       cellPosition  |-> cellPosition,
                       offset        |-> offset,
                       checkboxMatch |-> checkboxMatch,
                       attribute     |-> DataContext(rowText, cellPosition, offset,
                                                     checkboxMatch),
                       parsed        |-> NoParse,
                       dispatched    |-> FALSE]
    /\ opens = <<>>
    /\ buffer = <<>>
    /\ cursor = 0
    /\ visibleRanges = <<>>
    /\ tree = "none"
    /\ decorations = <<>>
    /\ lastClick = NoClick
    /\ edits = 0
    /\ content = <<>>
    /\ rendered = <<>>
    /\ controls = <<>>
    /\ clicks = <<>>
    /\ applied = 0

\* The input changes: onchange dispatches the event with
\* decodeURIComponent(data-context) as contextKey and the handler parses it.
DispatchChange ==
    /\ mode = "payload"
    /\ ~payload.dispatched
    /\ payload' = [payload EXCEPT
                        !.parsed = ParseContext(DecodeURIComponent(payload.attribute)),
                        !.dispatched = TRUE]
    /\ UNCHANGED mode
    /\ UNCHANGED renderedVars
    /\ UNCHANGED liveVars
    /\ UNCHANGED editorVars

NextPayload == DispatchChange

\* ------------------------------------------------------------------------
\* Specifications
\* ------------------------------------------------------------------------

Init == InitRendered \/ InitLive \/ InitEditor \/ InitPayload

Next == NextRendered \/ NextLive \/ NextEditor \/ NextPayload

Spec == Init /\ [][Next]_vars

SpecRendered == InitRendered /\ [][NextRendered]_vars

SpecLive == InitLive /\ [][NextLive]_vars

SpecEditor == InitEditor /\ [][NextEditor]_vars

SpecPayload == InitPayload /\ [][NextPayload]_vars

\* the documents of the rendered view that is edited between render and click
EditedDocuments ==
    {Table3(<<RowDocumentation, RowTests>>), Table2(<<RowRunTest, RowRunTest>>),
     Doc(<<LinePlain, <<>>, Header1, Delimiter1, RowNoWords>>)}

InitEdited == InitRendered /\ content \in EditedDocuments

NextEdited ==
    \/ \E i \in 1..Len(controls) : ClickControl(i)
    \/ \E j \in 1..Len(clicks) : ReadResolves(j)
    \/ \E j \in 1..Len(clicks) : ModifyApplies(j)
    \/ \E k \in 0..Len(Split(content, NL)) :
            \/ \E line \in InsertedLines : EditLines(k, line, TRUE)
            \/ \E line \in {Split(content, NL)[i] : i \in 1..Len(Split(content, NL))} :
                    EditLines(k, line, FALSE)

\* one rendering of the file, with edits of the file between render and click
SpecEdited == InitEdited /\ [][NextEdited]_vars

\* ------------------------------------------------------------------------
\* Properties
\* ------------------------------------------------------------------------

\* the checked states of the tokens of a text, in text order
TokenStates(text) ==
    Let(<<text, MatchAll(text)>>, LAMBDA a :
        [k \in 1..Len(a[2]) |-> IsCheckedToken(Substring(a[1], a[2][k], a[2][k] + 3))])

\* the rank, among the tokens of a text, of the token at offset src
TokenRank(text, src) ==
    Let(MatchAll(text), LAMBDA ms : Cardinality({k \in 1..Len(ms) : ms[k] <= src}))

\* click j has run its continuation
Handled(j) == clicks[j].phase # "reading"

\* click j was made on a control that showed the state of its token, and reads
\* the text its control was rendered from
FreshClick(j) ==
    /\ Handled(j)
    /\ clicks[j].read = clicks[j].from
    /\ clicks[j].checked # IsCheckedToken(clicks[j].original)

\* the text that differs from the text click j has read in the state of the
\* clicked token only
ClickedTokenToggled(j) ==
    TokenStates(clicks[j].result.text)
      = [TokenStates(clicks[j].read)
            EXCEPT ![TokenRank(clicks[j].read, clicks[j].src)] = clicks[j].checked]

\* click j went through the branch of a target cell with more than one token,
\* and that cell of that line is the one the clicked control stands in
InMultiTokenCell(j) ==
    /\ FreshClick(j)
    /\ clicks[j].result.path \in {"offset", "lineFallback"}
    /\ clicks[j].result.target = clicks[j].line
    /\ clicks[j].td = clicks[j].cell

ShoppingSecondToggled == <<"|", " ", "S", "h", "o", "p", "p", "i", "n", "g", " ", "|", " ", "[", "x", "]", " ", "M", "i", "l", "k", " ", "[", " ", "]", " ", "B", "r", "e", "a", "d", " ", "[", " ", "]", " ", "E", "g", "g", "s", " ", "|">>

\* C1: when the document is unchanged since the render and the target cell of
\* the target line, the cell of the clicked control, holds two or more tokens, a
\* click on the k-th checkbox of the cell writes a text in which the k-th token
\* of the cell has the new state and every other token of the document keeps
\* its state; on `| Shopping | [x] Milk [x] Bread [ ] Eggs |` a click on the
\* second checkbox writes `| Shopping | [x] Milk [ ] Bread [ ] Eggs |`.
C1_InCellDisambiguation ==
    \A j \in 1..Len(clicks) :
        InMultiTokenCell(j) =>
            /\ clicks[j].result.write
            /\ clicks[j].result.path = "offset"
            /\ ClickedTokenToggled(j)
            /\ (clicks[j].read = Table2(<<RowShopping>>) /\ clicks[j].nth = 2)
                 => clicks[j].result.text = Table2(<<ShoppingSecondToggled>>)

\* a click on the second checkbox of the Shopping row has been written
C1_Witness ==
    \E j \in 1..Len(clicks) :
        /\ InMultiTokenCell(j)
        /\ clicks[j].read = Table2(<<RowShopping>>)
        /\ clicks[j].nth = 2
        /\ clicks[j].appliedAt > 0
        /\ content = Table2(<<ShoppingSecondToggled>>)

\* C2: for every document and every checkbox rendered from a table cell of it,
\* a click on it, with the document unchanged between render and click, changes
\* the state of the source token the control was rendered from and the state of
\* no other token of the document (README.md: each checkbox toggles
\* independently).
C2_EachCheckboxIndependent ==
    \A j \in 1..Len(clicks) :
        FreshClick(j) => (clicks[j].result.write /\ ClickedTokenToggled(j))

\* every row line of a text in the form the handler rebuilds a line to
Normalised(text) ==
    Let(Split(text, NL), LAMBDA lines :
        Doc([k \in 1..Len(lines) |->
                IF IsRowLine(lines[k]) THEN RebuildLine(LineCells(lines[k]))
                ELSE lines[k]]))

\* live view: a step that clicks the control of the token that the click
\* before it has unchecked, and checks it again
LiveRoundTrip ==
    /\ mode = "live"
    /\ lastClick.start >= 0
    /\ ~lastClick.checked
    /\ lastClick' # lastClick
    /\ lastClick'.start = lastClick.start
    /\ lastClick'.checked

\* rendered view: click j unchecked a token, its write was rendered, and click
\* j + 1 on the same control checked it again
RenderedRoundTrip(j) ==
    /\ j + 1 <= Len(clicks)
    /\ FreshClick(j)
    /\ FreshClick(j + 1)
    /\ ~clicks[j].checked
    /\ clicks[j + 1].checked
    /\ clicks[j].appliedAt > 0
    /\ clicks[j + 1].from = clicks[j].result.text
    /\ clicks[j + 1].line = clicks[j].line
    /\ clicks[j + 1].td = clicks[j].td
    /\ clicks[j + 1].nth = clicks[j].nth

\* C3: a token toggled from checked to unchecked and back to checked leaves the
\* text byte-identical to the text before the two toggles, for `[x]` and for
\* `[X]`: in the live view the buffer after two clicks on the control of one
\* token is the buffer before them; in the rendered view the text written by
\* the second of two clicks on one control, with a render in between, is the
\* text before the first, apart from the spacing of a rebuilt line.
C3_TokenRoundTrip ==
    [][/\ LiveRoundTrip => buffer' = lastClick.before
       /\ \A j \in 1..Len(clicks) :
            RenderedRoundTrip(j) =>
                Normalised(clicks[j + 1].result.text) = Normalised(clicks[j].read)]_vars

\* the lower-case words of a line that are longer than 2 characters
WordsOf(line) ==
    Let(LineWords(line), LAMBDA ws : {ws[k] : k \in 1..Len(ws)})

\* row r holds a word that neither contains nor is contained in any word of
\* line o: a distinguishing, unambiguous key word
Distinguished(r, o) ==
    Let(<<WordsOf(r) \ {TokChecked, TokUnchecked}, WordsOf(o)>>, LAMBDA a :
        \E w \in a[1] :
            /\ ~IsNumeric(w)
            /\ \A v \in a[2] : ~Includes(w, v) /\ ~Includes(v, w))

\* the text that click j has read holds the lines its control was rendered
\* from, in the same or in the opposite order, and the clicked row is
\* distinguished from every other line by a key word
AmongDistinguishedRows(j) ==
    /\ Handled(j)
    /\ clicks[j].checked # IsCheckedToken(clicks[j].original)
    /\ clicks[j].td = clicks[j].cell
    /\ Let(<<Split(clicks[j].from, NL), Split(clicks[j].read, NL)>>, LAMBDA a :
            /\ Len(a[1]) >= 4
            /\ a[2] \in {a[1], LastTwoSwapped(a[1])}
            /\ \A k \in 1..Len(a[1]) :
                    k # clicks[j].line + 1
                        => Distinguished(a[1][clicks[j].line + 1], a[1][k]))

\* the number of positions at which two sequences of equal length differ
Differences(xs, ys) == Cardinality({k \in 1..Len(xs) : xs[k] # ys[k]})

\* C4: of two table rows that differ only in distinguishing key words, such as
\* `| Write documentation | [x] | High |` and `| Write tests | [x] | High |`,
\* a click whose fingerprint was built from one row's text selects that row's
\* line as target line, in whichever order the lines stand in the text that is
\* read, and toggles a token of that line and nothing else.
C4_RelocalizationUnique ==
    \A j \in 1..Len(clicks) :
        AmongDistinguishedRows(j) =>
            Let(<<Split(clicks[j].from, NL), Split(clicks[j].read, NL),
                  Split(clicks[j].result.text, NL), clicks[j].result.target + 1>>,
                LAMBDA a :
                    /\ clicks[j].result.target >= 0
                    /\ a[2][a[4]] = a[1][clicks[j].line + 1]
                    /\ clicks[j].result.write
                    /\ Len(a[3]) = Len(a[2])
                    /\ \A k \in 1..Len(a[2]) : k # a[4] => a[3][k] = a[2][k]
                    /\ Len(TokenStates(a[3][a[4]])) = Len(TokenStates(a[2][a[4]]))
                    /\ Differences(TokenStates(a[3][a[4]]), TokenStates(a[2][a[4]])) = 1)

\* a click on the documentation row, read with the lines in the opposite order,
\* has been written to the documentation row
C4_Witness ==
    \E j \in 1..Len(clicks) :
        /\ AmongDistinguishedRows(j)
        /\ clicks[j].from = Table3(<<RowDocumentation, RowTests>>)
        /\ clicks[j].line = 2
        /\ clicks[j].read = Table3(<<RowTests, RowDocumentation>>)
        /\ clicks[j].result.target = 3
        /\ clicks[j].appliedAt > 0

\* C5: a click on a control of the current set replaces exactly the buffer
\* range [start+1, start+2) by one character, `x` when the control becomes
\* checked and a space when it becomes unchecked; the length of the buffer and
\* every other character stay, and the replaced character is the state
\* character of a checkbox token.
C5_LiveToggleOneCharacter ==
    lastClick.start >= 0 =>
        LET h == lastClick
        IN  /\ Len(buffer) = Len(h.before)
            /\ TokenAt(h.before, h.start)
            /\ TokenAt(buffer, h.start)
            /\ h.checked = ~IsCheckedToken(Substring(h.before, h.start, h.start + 3))
            /\ buffer[h.start + 2] = (IF h.checked THEN "x" ELSE " ")
            /\ \A p \in 1..Len(buffer) : p # h.start + 2 => buffer[p] = h.before[p]
            /\ buffer[h.start + 2] # h.before[h.start + 2]

\* the second token of the row `|[X] [ ]|` has been clicked
C5_Witness ==
    /\ lastClick.before = <<"|", "a", "|", NL, "|", "-", "|", NL, "|", "[", "X", "]", " ", "[", " ", "]", "|">>
    /\ lastClick.start = 13
    /\ buffer = <<"|", "a", "|", NL, "|", "-", "|", NL, "|", "[", "X", "]", " ", "[", "x", "]", "|">>

\* the token at offset s lies in a text the last build has scanned: a visible
\* range in the mode of an isolated cell, a table-row node otherwise
Scanned(s) ==
    IF Includes(buffer, <<"|">>)
    THEN \E n \in {TableRowNodes(buffer, tree)[k] :
                        k \in 1..Len(TableRowNodes(buffer, tree))} :
            n.from <= s /\ s + 3 <= n.to
    ELSE \E k \in 1..Len(visibleRanges) :
            visibleRanges[k].from <= s /\ s + 3 <= visibleRanges[k].to

\* the number of controls the current set holds for the token at offset s
ControlsAt(s) == Cardinality({i \in 1..Len(decorations) : decorations[i].start = s})

\* the set was built in this step: the document or the viewport has changed
Rebuilt == buffer' # buffer \/ visibleRanges' # visibleRanges

\* C6: for every checkbox token at [s, s+3) of the scanned text, in both modes,
\* a build with the cursor head at c produces no control for it when
\* s < c < s+3 and exactly one control when c <= s or c >= s+3.
C6_CursorExclusion ==
    [][Rebuilt =>
        \A s \in 0..(Len(buffer') - 3) :
            (TokenAt(buffer', s) /\ Scanned(s)') =>
                ControlsAt(s)' = (IF cursor' > s /\ cursor' < s + 3 THEN 0 ELSE 1)]_vars

\* C7: each rendered-view click leads to at most one write, and on every path
\* (offset replacement with line rebuild, substring replacement in the line,
\* whole-document fallback) a write is issued only when the updated text
\* differs from the text that was read.
C7_WriteOnlyOnChange ==
    \A j \in 1..Len(clicks) :
        (Handled(j) /\ clicks[j].result.write) => clicks[j].result.text # clicks[j].read

\* the ranks of the tokens whose state the text written by click j changes
ToggledRanks(j) ==
    Let(<<TokenStates(clicks[j].read), TokenStates(clicks[j].result.text)>>, LAMBDA a :
        {r \in 1..Len(a[1]) : r > Len(a[2]) \/ a[1][r] # a[2][r]})

\* clicks j and k were made on different checkboxes, have read the same text,
\* and both reads resolved before the first of the two writes reached the file
ReadsRaced(j, k) ==
    /\ j # k
    /\ clicks[j].src # clicks[k].src
    /\ clicks[j].result.write
    /\ clicks[k].result.write
    /\ clicks[j].read = clicks[k].read
    /\ clicks[j].appliedAt > 0
    /\ clicks[j].readAt < clicks[j].appliedAt
    /\ clicks[k].readAt < clicks[j].appliedAt

\* C8: of two clicks on different checkboxes whose reads both resolve before
\* either write is applied, the later write replaces the whole file: the file
\* then holds the text of the later write, with the later toggle and without
\* the earlier one (last writer wins).
C8_LastWriterWins ==
    [][\A j \in 1..Len(clicks) : \A k \in 1..Len(clicks) :
            (/\ ReadsRaced(j, k)
             /\ clicks[k].phase = "writing"
             /\ clicks'[k].phase = "done")
            => /\ content' = clicks[k].result.text
               /\ \A r \in ToggledRanks(j) \ ToggledRanks(k) :
                    TokenStates(content')[r] = TokenStates(clicks[k].read)[r]
               /\ \A r \in ToggledRanks(k) :
                    TokenStates(content')[r] # TokenStates(clicks[k].read)[r]]_vars

\* two raced writes have both reached the file, and the file holds the text of
\* the later one, in which the token the earlier one toggled is as it was read
C8_Witness ==
    \E j \in 1..Len(clicks) : \E k \in 1..Len(clicks) :
        /\ ReadsRaced(j, k)
        /\ clicks[k].appliedAt > clicks[j].appliedAt
        /\ applied = clicks[k].appliedAt
        /\ content = clicks[k].result.text
        /\ ToggledRanks(j) \ ToggledRanks(k) # {}
        /\ ToggledRanks(k) # {}
        /\ content # clicks[j].result.text

\* C9: the set of one build consists of pairwise non-overlapping ranges, each
\* of length 3 and over exactly one checkbox token of the buffer, and no token
\* is covered by two controls, whatever table-row nodes the iteration enters,
\* nested ones included.
C9_ControlsDisjoint ==
    /\ \A i \in 1..Len(decorations) :
            /\ decorations[i].end = decorations[i].start + 3
            /\ TokenAt(buffer, decorations[i].start)
    /\ \A i \in 1..Len(decorations) : \A k \in 1..Len(decorations) :
            i # k => \/ decorations[i].end <= decorations[k].start
                     \/ decorations[k].end <= decorations[i].start

\* the offset of the first occurrence of sub in str, or -1
FirstOccurrence(str, sub) ==
    LET at == {i \in 0..(Len(str) - Len(sub)) :
                    \A p \in 1..Len(sub) : str[i + p] = sub[p]}
    IN  IF at = {} THEN -1 ELSE CHOOSE i \in at : \A m \in at : i <= m

\* click j found no target line
NoTargetLine(j) == Handled(j) /\ clicks[j].result.target < 0

\* C10: when re-localization yields no target line the handler replaces the
\* first occurrence of the original token anywhere in the text by the new token
\* text and changes nothing else, and writes when that changes the text; when
\* the original token does not occur, no write is issued and the text stays;
\* either way the continuation runs to its end.
C10_GlobalFallback ==
    \A j \in 1..Len(clicks) :
        NoTargetLine(j) =>
            LET at == FirstOccurrence(clicks[j].read, clicks[j].original)
                r  == clicks[j].result
            IN  /\ r.path = "global"
                /\ clicks[j].phase \in {"writing", "done"}
                /\ Len(r.text) = Len(clicks[j].read)
                /\ \A p \in 1..Len(r.text) :
                        r.text[p] = (IF at >= 0 /\ p - at \in 1..3
                                     THEN NewCheckboxText(clicks[j].checked)[p - at]
                                     ELSE clicks[j].read[p])
                /\ r.write = (r.text # clicks[j].read)
                /\ at < 0 => (~r.write /\ clicks[j].phase = "done"
                              /\ clicks[j].appliedAt = 0)

\* a click on the checkbox of a row without words has been written over the
\* first `[x]` of the text, and a second click on the same control, whose token
\* occurs nowhere by then, has ended without a write
C10_Witness ==
    \E j \in 1..Len(clicks) : \E k \in 1..Len(clicks) :
        /\ NoTargetLine(j)
        /\ clicks[j].read = Table1(<<RowNoWords>>)
        /\ clicks[j].result.write
        /\ clicks[j].appliedAt > 0
        /\ NoTargetLine(k)
        /\ clicks[k].read = content
        /\ FirstOccurrence(clicks[k].read, clicks[k].original) < 0
        /\ clicks[k].phase = "done"
        /\ clicks[k].appliedAt = 0
\* the text the editor holds after file-open event k
AfterOpen(k) == IF k = Len(opens) THEN buffer ELSE opens[k + 1].before

\* the offsets of s that lie inside a match of /\{\d+\}\{\d+\}/ at some offset
InAnnotation(s) ==
    {p \in 0..(Len(s) - 1) :
        \E i \in 0..p : AnnotationEnd(s, i) > p}

\* the characters of s that no annotation can hold, in their order
OtherCharacters(s) ==
    Filter(s, {p \in 1..Len(s) : s[p] \notin DigitSet \cup {"{", "}"}})

\* the text of the README example before and after the cleanup
AnnotatedExample == <<"[", "x", "]", "{", "4", "}", "{", "1", "1", "}", " ", "d", "o", "n", "e">>

CleanedExample == <<"[", "x", "]", " ", "d", "o", "n", "e">>

\* C11: a file-open event on a Markdown file with an editor leaves the text
\* without any two back-to-back braced integers, so that a second cleanup
\* changes nothing; every character outside the annotations of the text, and so
\* every checkbox token with its state, is kept in place and order;
\* `[x]{4}{11} done` becomes `[x] done`; the editor is written exactly when the
\* cleaned text differs, and never by an event the handler returns from early.
C11_AnnotationCleanup ==
    \A k \in 1..Len(opens) :
        Let(<<opens[k].before, AfterOpen(k)>>, LAMBDA t :
            /\ opens[k].setValue <=> t[2] # t[1]
            /\ ~opens[k].cleaned => ~opens[k].setValue
            /\ opens[k].cleaned =>
                /\ InAnnotation(t[2]) = {}
                /\ CleanedContent(t[2]) = t[2]
                /\ OtherCharacters(t[2]) = OtherCharacters(t[1])
                /\ Len(t[2]) >= Len(t[1]) - Cardinality(InAnnotation(t[1]))
                /\ TokenStates(t[2]) = TokenStates(t[1])
                /\ t[1] = AnnotatedExample => t[2] = CleanedExample)

\* the cursor head is strictly inside the token at offset s before this step
\* and not after it, and neither the document nor the viewport changes
CursorLeaves(s) ==
    /\ cursor > s /\ cursor < s + 3
    /\ ~(cursor' > s /\ cursor' < s + 3)
    /\ buffer' = buffer
    /\ visibleRanges' = visibleRanges

\* C12: when the cursor moves from strictly inside a scanned checkbox token
\* that has no control because of it to a position outside the token, with no
\* document change and no viewport change, the control set after the move
\* holds a control for that token.
C12_ControlWhenCursorLeaves ==
    [][\A s \in 0..(Len(buffer) - 3) :
            (TokenAt(buffer, s) /\ Scanned(s) /\ ControlsAt(s) = 0 /\ CursorLeaves(s)) =>
                ControlsAt(s)' >= 1]_vars

\* C13: every control of the current set spans three characters, these are a
\* checkbox token of the current buffer, and the control is checked exactly
\* when the state character of that token is `x` or `X`.
C13_ControlsNeverStale ==
    \A i \in 1..Len(decorations) :
        Let(decorations[i], LAMBDA d :
            /\ d.end = d.start + 3
            /\ d.start >= 0 /\ d.end <= Len(buffer)
            /\ TokenAt(buffer, d.start)
            /\ d.checked <=> buffer[d.start + 2] \in {"x", "X"})

\* a control sits on a token that an edit has moved and a click has toggled
C13_Witness ==
    /\ edits = 1
    /\ lastClick.start = 1
    /\ buffer = <<" ", "[", " ", "]", " ", "[", " ", "]">>
    /\ \E i \in 1..Len(decorations) : decorations[i].start = 1 /\ ~decorations[i].checked

\* the source line click j's control was rendered from, in the text it has read
ClickedLine(j) == Split(clicks[j].read, NL)[clicks[j].line + 1]

\* C14: for a click that reads the text its control was rendered from, the
\* cellIndex parsed from the fingerprint is an index into the cells of the
\* control's source line (split on `|`, trimmed, empty ones discarded), and the
\* cell at that index is the text of the table cell the control was rendered
\* from; also in a row with an empty cell before that cell.
C14_CellIndexSelectsClickedCell ==
    \A j \in 1..Len(clicks) :
        (Handled(j) /\ clicks[j].read = clicks[j].from) =>
            Let(<<ParseContext(clicks[j].contextKey).cellPosition,
                  LineCells(ClickedLine(j)), RowChildren(ClickedLine(j))>>,
                LAMBDA a :
                    /\ a[1].ok
                    /\ a[1].val < Len(a[2])
                    /\ a[2][a[1].val + 1] = a[3][clicks[j].td + 1].text)

\* the cells of a row line as the table has them: the trimmed texts between
\* the pipes, empty ones included, without what stands before a leading and
\* after a trailing pipe
CellTexts(line) ==
    Let(RowChildren(line), LAMBDA cells : [k \in 1..Len(cells) |-> cells[k].text])

\* two cell texts are the same but for the state character of one token
OneStateCharacterApart(old, new) ==
    /\ Len(new) = Len(old)
    /\ Differences(old, new) = 1
    /\ \A p \in 1..Len(old) :
            old[p] # new[p] => (p >= 2 /\ TokenAt(old, p - 2) /\ TokenAt(new, p - 2))

\* click j has written through a replacement in its target line
LineLevelWrite(j) ==
    /\ Handled(j)
    /\ clicks[j].result.write
    /\ clicks[j].result.path \in {"offset", "lineFallback", "single"}

\* C15: a write through a replacement in the target line leaves every other
\* line as it was read, and the target line keeps its cells, empty ones
\* included, in number and order: the texts between its pipes are the same up
\* to whitespace next to a pipe, but for the state character of one token in one
\* cell.
C15_LineToggleFrame ==
    \A j \in 1..Len(clicks) :
        LineLevelWrite(j) =>
            Let(<<Split(clicks[j].read, NL), Split(clicks[j].result.text, NL),
                  clicks[j].result.target + 1>>,
                LAMBDA a :
                    /\ Len(a[2]) = Len(a[1])
                    /\ \A k \in 1..Len(a[1]) : k # a[3] => a[2][k] = a[1][k]
                    /\ Let(<<CellTexts(a[1][a[3]]), CellTexts(a[2][a[3]])>>, LAMBDA c :
                            /\ Len(c[2]) = Len(c[1])
                            /\ Differences(c[1], c[2]) <= 1
                            /\ \A k \in 1..Len(c[1]) :
                                    c[1][k] # c[2][k] =>
                                        OneStateCharacterApart(c[1][k], c[2][k])))

\* C16: the controls of every build, in the order they were handed to the range
\* builder, have non-decreasing start offsets, in the full-document mode and in
\* the mode of an isolated cell.
C16_RegistrationsAscending ==
    \A i \in 1..(Len(decorations) - 1) : decorations[i].start <= decorations[i + 1].start

\* a build over nested table-row nodes that each hold the same two tokens: the
\* four collected matches stand in sorted order, not in the order of collection
C16_Witness ==
    /\ mode = "live"
    /\ tree = "nested"
    /\ Len(decorations) = 4
    /\ decorations[1].start = decorations[2].start
    /\ decorations[2].start < decorations[3].start
    /\ decorations[3].start = decorations[4].start

\* the range [from, to) lies inside one of the nodes
InRowSpan(nodes, from, to) ==
    \E k \in 1..Len(nodes) : nodes[k].from <= from /\ to <= nodes[k].to

\* the token at offset s lies inside one of the ranges
InVisibleRange(ranges, s) ==
    \E k \in 1..Len(ranges) : ranges[k].from <= s /\ s + 3 <= ranges[k].to

\* what a build with the cursor head at cursorPos decides from the text of the
\* document: ds is the set it has built
ModeDecides(doc, cursorPos, ranges, rowNodes, ds) ==
    IF \E p \in 1..Len(doc) : doc[p] = "|"
    THEN \A i \in 1..Len(ds) :
            /\ TokenAt(doc, ds[i].start)
            /\ InRowSpan(rowNodes, ds[i].start, ds[i].end)
    ELSE IF \E p \in 1..Len(doc) : doc[p] = "["
    THEN \A s \in 0..(Len(doc) - 3) :
            (TokenAt(doc, s) /\ InVisibleRange(ranges, s)
             /\ ~(cursorPos > s /\ cursorPos < s + 3))
                => \E i \in 1..Len(ds) : ds[i].start = s
    ELSE ds = <<>>

\* C17: after every build, a buffer that contains `|` has controls only on
\* tokens inside a table-row span of the syntax tree, so a token outside every
\* row span has none; a buffer without `|` but with `[` has a control on every
\* token inside a visible range that the cursor is not strictly inside; a
\* buffer with neither has no control.
C17_ModeDetection ==
    [][Rebuilt =>
        Let(<<buffer', cursor', visibleRanges', TableRowNodes(buffer', tree'),
              decorations'>>,
            LAMBDA a : ModeDecides(a[1], a[2], a[3], a[4], a[5]))]_vars

\* a build on a buffer with a table has left the token above the table, which
\* a typed space has moved to offset 1, without a control
C17_Witness ==
    /\ mode = "live"
    /\ edits = 1
    /\ tree = "rows"
    /\ TokenAt(buffer, 1)
    /\ Includes(buffer, <<"|">>)
    /\ ~InRowSpan(TableRowNodes(buffer, tree), 1, 4)
    /\ ControlsAt(1) = 0

\* the lines of the text click j has read that are candidates for its
\* fingerprint, each with its score: 0-based line indices
Candidates(j) ==
    Let(<<Split(clicks[j].read, NL), ParseContext(clicks[j].contextKey)>>, LAMBDA a :
        Let([i \in 1..Len(a[1]) |-> Len(MatchedWords(KeyWords(a[2].rowText), a[1][i]))],
            LAMBDA score :
                {[lineIndex |-> i - 1, matchScore |-> score[i]] :
                    i \in {i \in 1..Len(a[1]) :
                            /\ Includes(a[1][i], <<"|">>)
                            /\ Includes(a[1][i], a[2].originalCheckbox)
                            /\ score[i] > 0
                            /\ a[2].cellPosition.ok
                            /\ a[2].cellPosition.val < Len(LineCells(a[1][i]))
                            /\ Includes(LineCells(a[1][i])[a[2].cellPosition.val + 1],
                                        a[2].originalCheckbox)}}))

TokenLines(text) ==
    Let(Split(text, NL), LAMBDA lines :
        Filter(lines, {k \in 1..Len(lines) : MatchAll(lines[k]) # <<>>}))

\* the text click j has read is the text its control was rendered from, but
\* for lines without checkbox token that were inserted or deleted
ReadAfterLineEdits(j) ==
    /\ Handled(j)
    /\ TokenLines(clicks[j].read) = TokenLines(clicks[j].from)

\* C19: when the text a click reads differs from the rendered text only in
\* inserted or deleted lines without checkbox token, the click writes exactly
\* when it would on the rendered text, its text has the token-bearing lines
\* that the toggle of the rendered text has (the same token of the same row is
\* toggled), and every line without token is as it was read.
C19_ToggleCommutesWithLineEdits ==
    \A j \in 1..Len(clicks) :
        ReadAfterLineEdits(j) =>
            Let(<<HandleRead(clicks[j].from, clicks[j].checked, clicks[j].contextKey),
                  Split(clicks[j].read, NL), Split(clicks[j].result.text, NL)>>,
                LAMBDA a :
                    /\ clicks[j].result.write = a[1].write
                    /\ clicks[j].result.path = a[1].path
                    /\ TokenLines(clicks[j].result.text) = TokenLines(a[1].text)
                    /\ Len(a[3]) = Len(a[2])
                    /\ \A k \in 1..Len(a[2]) :
                            MatchAll(a[2][k]) = <<>> => a[3][k] = a[2][k])

\* a click on the second row is read after a row without checkbox was inserted
\* above the table, and has toggled the token two lines further down
C19_Witness ==
    \E j \in 1..Len(clicks) :
        /\ ReadAfterLineEdits(j)
        /\ clicks[j].from = Table3(<<RowDocumentation, RowTests>>)
        /\ Split(clicks[j].read, NL)[1] = RowWithoutCheckbox
        /\ clicks[j].line = 3
        /\ clicks[j].result.target = 4
        /\ clicks[j].result.write
        /\ clicks[j].appliedAt > 0

\* C20: what the handler parses out of the payload of an input element is what
\* the render has put into it: the row text, the cell index, the in-cell offset
\* and the token; also for a row text that holds `|` or a field label.
C20_PayloadRoundTrip ==
    payload.dispatched =>
        /\ payload.parsed.rowText = payload.rowText
        /\ payload.parsed.cellPosition = [ok |-> TRUE, val |-> payload.cellPosition]
        /\ payload.parsed.offset = [ok |-> TRUE, val |-> payload.offset]
        /\ payload.parsed.originalCheckbox = payload.checkboxMatch

====
